---- MODULE Spec2Model ----
(***************************************************************************)
(* Circuit Walker Sneakers (CircuitPython_Circuit_Walker/main.py).         *)
(*                                                                         *)
(* The program is one sequential script: start-up (clear the strip,        *)
(* derive the tap-detection register codes, enable click detection),       *)
(* then either the S.O.S. routine (never returns) or the main loop.        *)
(*                                                                         *)
(* Numbers.  The script computes with floats; the model computes with      *)
(* exact fixed-point / rational values:                                    *)
(*   - time (time.monotonic, STEP_FLASH_S, delta) in ticks of              *)
(*     1/TicksPerSecond s;                                                 *)
(*   - TAP_THRESHOLD_G in 1/GUnit g, TAP_TIME_LIMIT_S in 1/SUnit s;        *)
(*   - a sine value x as the integer x*FixedScale, a hue as the integer    *)
(*     hue*FixedScale;                                                     *)
(*   - saturation, value and colour channels as rationals <<num, den>>.    *)
(* Float rounding error is therefore not modelled.                         *)
(***************************************************************************)
EXTENDS Integers, Sequences, FiniteSets, TLC

\* ---------------------------------------------------------------- units
\* Ticks of time.monotonic() per second (model resolution).
TicksPerSecond == 20
\* A float in [-1,1] or a hue in degrees is held as value*FixedScale.
FixedScale == 100
\* TAP_THRESHOLD_G is held in 1/GUnit g, TAP_TIME_LIMIT_S in 1/SUnit s.
GUnit == 100
SUnit == 1000

\* ---------------------------------------------------------------- bounds
\* Largest clock reading, in ticks.
MaxTime == 16
\* Largest time between two clock readings, in ticks.
MaxDelta == 11
\* Largest first clock reading (line 216), in ticks.
MaxStart == 1

\* ---------------------------------------------------------------- configuration
\* STEP_FLASH_S = 0.5 s, in ticks.
STEP_FLASH_S == 10
\* ANIMATION_FREQ_HZ = 1.0
ANIMATION_FREQ_HZ == 1
\* neopixel.NeoPixel(board.NEOPIXEL, 10)
NumPixels == 10
\* Shipped TAP_THRESHOLD_G = 1.5 g and TAP_TIME_LIMIT_S = 0.25 s.
ShippedThreshold == 150
ShippedTimeLimit == 250
\* Configured thresholds (1/GUnit g) and time windows (1/SUnit s) the model
\* starts from: the shipped values, values between two register codes, the
\* largest representable ones and the first ones that are not.
ThresholdChoices == {0, ShippedThreshold, 151, 396, 397, 500}
TimeLimitChoices == {0, ShippedTimeLimit, 2540, 2541}

GammaLiteral == <<
      0,   0,   0,   0,   0,   0,   0,   0,   0,   0,   0,   0,   0,   0,   0,   0,
      0,   0,   0,   0,   0,   0,   0,   0,   0,   0,   0,   0,   1,   1,   1,   1,
      1,   1,   1,   1,   1,   1,   1,   1,   1,   2,   2,   2,   2,   2,   2,   2,
      2,   3,   3,   3,   3,   3,   3,   3,   4,   4,   4,   4,   4,   5,   5,   5,
      5,   6,   6,   6,   6,   7,   7,   7,   7,   8,   8,   8,   9,   9,   9,  10,
     10,  10,  11,  11,  11,  12,  12,  13,  13,  13,  14,  14,  15,  15,  16,  16,
     17,  17,  18,  18,  19,  19,  20,  20,  21,  21,  22,  22,  23,  24,  24,  25,
     25,  26,  27,  27,  28,  29,  29,  30,  31,  32,  32,  33,  34,  35,  35,  36,
     37,  38,  39,  39,  40,  41,  42,  43,  44,  45,  46,  47,  48,  49,  50,  50,
     51,  52,  54,  55,  56,  57,  58,  59,  60,  61,  62,  63,  64,  66,  67,  68,
     69,  70,  72,  73,  74,  75,  77,  78,  79,  81,  82,  83,  85,  86,  87,  89,
     90,  92,  93,  95,  96,  98,  99, 101, 102, 104, 105, 107, 109, 110, 112, 114,
    115, 117, 119, 120, 122, 124, 126, 127, 129, 131, 133, 135, 137, 138, 140, 142,
    144, 146, 148, 150, 152, 154, 156, 158, 160, 162, 164, 167, 169, 171, 173, 175,
    177, 180, 182, 184, 186, 189, 191, 193, 196, 198, 200, 203, 205, 208, 210, 213,
    215, 218, 220, 223, 225, 228, 231, 233, 236, 239, 241, 244, 247, 249, 252, 255
>>

\* The array GAMMA8: module-level state that line 53 binds to the literal.
VARIABLE GAMMA8

\* ---------------------------------------------------------------- helpers
Max(a, b) == IF a >= b THEN a ELSE b

\* math.ceil(n/d) for d > 0.
Ceil(n, d) == -((-n) \div d)

\* int(x) of the rational n/d, d > 0: truncation toward zero.
int(n, d) == IF n >= 0 THEN n \div d ELSE -((-n) \div d)

\* Mutant of GammaAt: the table read from its far end.
GammaAtFromEnd(k) ==
    IF k \in 0..255 THEN GAMMA8[256 - k]
    ELSE IF k \in -256..-1 THEN GAMMA8[-k]
    ELSE -1

\* GAMMA8[k] with Python's indexing: -256..-1 count from the end, anything
\* else outside 0..255 raises IndexError (here -1).
GammaAt(k) ==
    IF k \in 0..255 THEN GAMMA8[k + 1]
    ELSE IF k \in -256..-1 THEN GAMMA8[k + 257]
    ELSE -1

\* math.sin at the angle k/TicksPerSecond turn, times FixedScale, rounded.
SinTable == <<0, 31, 59, 81, 95, 100, 95, 81, 59, 31,
              0, -31, -59, -81, -95, -100, -95, -81, -59, -31>>
Sin(k) == SinTable[(k % TicksPerSecond) + 1]

lerp(x, x0, x1, y0, y1) == y0 + (x - x0) * ((y1 - y0) \div (x1 - x0))

\* Mutant of Channel: the scaled channel rounded to the nearest index.
ChannelRounded(c) == GammaAt((2 * 255 * c[1] + c[2]) \div (2 * c[2]))

\* One channel: GAMMA8[int(255.0*c)], c = <<num, den>>.
Channel(c) == GammaAt(int(255 * c[1], c[2]))

\* Mutant of HSV_to_RGB: the rows of sectors 3 and 4 exchanged.
HSV_to_RGB_RowsExchanged(h, s, v) ==
    IF s[1] = 0
    THEN <<Channel(v), Channel(v), Channel(v)>>
    ELSE
      LET fD == 60 * FixedScale
          i  == h \div fD
          fN == h - i * fD
          p  == <<v[1] * (s[2] - s[1]), v[2] * s[2]>>
          q  == <<v[1] * (s[2] * fD - s[1] * fN), v[2] * s[2] * fD>>
          t  == <<v[1] * (s[2] * fD - s[1] * (fD - fN)), v[2] * s[2] * fD>>
          rgb == CASE i = 0 -> <<v, t, p>>
                   [] i = 1 -> <<q, v, p>>
                   [] i = 2 -> <<p, v, t>>
                   [] i = 3 -> <<t, p, v>>
                   [] i = 4 -> <<p, q, v>>
                   [] OTHER -> <<v, p, q>>
      IN <<Channel(rgb[1]), Channel(rgb[2]), Channel(rgb[3])>>

\* h is hue*FixedScale; s and v are rationals <<num, den>>.
HSV_to_RGB(h, s, v) ==
    IF s[1] = 0
    THEN <<Channel(v), Channel(v), Channel(v)>>
    ELSE
      LET fD == 60 * FixedScale
          i  == h \div fD
          fN == h - i * fD
          p  == <<v[1] * (s[2] - s[1]), v[2] * s[2]>>
          q  == <<v[1] * (s[2] * fD - s[1] * fN), v[2] * s[2] * fD>>
          t  == <<v[1] * (s[2] * fD - s[1] * (fD - fN)), v[2] * s[2] * fD>>
          rgb == CASE i = 0 -> <<v, t, p>>
                   [] i = 1 -> <<q, v, p>>
                   [] i = 2 -> <<p, v, t>>
                   [] i = 3 -> <<p, q, v>>
                   [] i = 4 -> <<t, p, v>>
                   [] OTHER -> <<v, p, q>>
      IN <<Channel(rgb[1]), Channel(rgb[2]), Channel(rgb[3])>>

\* The hue animate_rainbow computes for pixel i at clock reading current.
PixelHue(i, current) ==
    LET a            == ANIMATION_FREQ_HZ * current
        phase_offset == TicksPerSecond \div NumPixels
        phase        == i * phase_offset
        x            == Sin(a + phase)
    IN lerp(x, -FixedScale, FixedScale, 0, 360 * FixedScale)

Pixels == 0..(NumPixels - 1)
Fill(color) == [i \in Pixels |-> color]
Off == <<0, 0, 0>>
Red == <<255, 0, 0>>

\* animate_rainbow: the frame, and the arguments of its HSV_to_RGB calls.
RainbowCalls(current, remaining) ==
    [i \in Pixels |-> [h |-> PixelHue(i, current), s |-> <<1, 1>>, v |-> remaining]]
\* Mutant of animate_rainbow: saturation and value handed over exchanged.
animate_rainbow_Exchanged(current, remaining) ==
    [i \in Pixels |-> HSV_to_RGB(PixelHue(i, current), remaining, <<1, 1>>)]

animate_rainbow(current, remaining) ==
    [i \in Pixels |-> HSV_to_RGB(PixelHue(i, current), <<1, 1>>, remaining)]


\* ---------------------------------------------------------------- state
VARIABLES
    TAP_THRESHOLD_G,   \* configured threshold, 1/GUnit g
    TAP_TIME_LIMIT_S,  \* configured time window, 1/SUnit s
    pc,                \* position in the script
    pixels,            \* the NeoPixel frame buffer
    strip,             \* what the LEDs show (last pixels.write())
    tap_threshold,     \* threshold register code, -1 while unbound
    time_limit,        \* time-limit register code, -1 while unbound
    click,             \* arguments of lis3dh.set_click, <<>> while not enabled
    message,           \* error_sos's message, "" outside error_sos
    sos_i,             \* error_sos's loop index i
    console,           \* the last line printed
    last, current, delta, pixels_animate,
    remaining,         \* pixels_animate/STEP_FLASH_S as <<num, den>>
    single,            \* the last read_click()'s single flag
    hsv_calls,         \* arguments of the HSV_to_RGB calls of the last frame
    since_poll,        \* strip operations since the last read_click()
    t0,                \* clock reading of the iteration of the last single
                       \* tap, -1 before the first (history)
    slept,             \* argument of the last time.sleep, in 1/SUnit s
    arg,               \* arguments [h, s, v] of a direct HSV_to_RGB call
    rgb                \* what that call returned

vars == <<GAMMA8, TAP_THRESHOLD_G, TAP_TIME_LIMIT_S, pc, pixels, strip, tap_threshold,
          time_limit, click, message, sos_i, console, last, current, delta,
          pixels_animate, remaining, single, hsv_calls, since_poll, t0,
          slept, arg, rgb>>

hsvVars  == <<arg, rgb>>
cfgVars  == <<GAMMA8, TAP_THRESHOLD_G, TAP_TIME_LIMIT_S>>
loopVars == <<last, current, delta, pixels_animate, remaining, single,
              hsv_calls, since_poll, t0>>
calVars  == <<tap_threshold, time_limit, click>>
sosVars  == <<message, sos_i>>

ThresholdMessage == "Tap threshold is too high to represent!"
TimeLimitMessage == "Time limit is too high to represent!"

SosPcs  == {"sos_print", "sos_fill_on", "sos_write_on", "sos_sleep_on",
            "sos_fill_off", "sos_write_off", "sos_sleep_off"}
LoopPcs == {"read_clock", "decay", "render", "write", "read_click", "sleep"}

\* The state once the NeoPixel object exists (line 177): the buffer is
\* zeroed, the LEDs still show whatever they showed before.
Init ==
    /\ TAP_THRESHOLD_G \in ThresholdChoices
    /\ TAP_TIME_LIMIT_S \in TimeLimitChoices
    /\ GAMMA8 = GammaLiteral
    /\ pc = "clear_pixels"
    /\ pixels = Fill(Off)
    /\ strip \in {Fill(Off), Fill(Red)}
    /\ tap_threshold = -1
    /\ time_limit = -1
    /\ click = <<>>
    /\ message = ""
    /\ sos_i = 0
    /\ console = [text |-> "", arg |-> 0]
    /\ last = 0
    /\ current = 0
    /\ delta = 0
    /\ pixels_animate = 0
    /\ remaining = <<0, 1>>
    /\ single = FALSE
    /\ hsv_calls = <<>>
    /\ since_poll = <<>>
    /\ t0 = -1
    /\ slept = 0
    /\ arg = [h |-> 0, s |-> <<0, 1>>, v |-> <<0, 1>>]
    /\ rgb = <<0, 0, 0>>

\* ---------------------------------------------------------------- start-up
\* Mutant of ClearPixels: the buffer cleared but not flushed.
ClearPixelsNoWrite ==
    /\ pc = "clear_pixels"
    /\ pixels' = Fill(Off)
    /\ pc' = "calc_threshold"
    /\ UNCHANGED <<cfgVars, hsvVars, slept, strip, calVars, sosVars, console, loopVars>>

\* pixels.fill((0,0,0)); pixels.write()
ClearPixels ==
    /\ pc = "clear_pixels"
    /\ pixels' = Fill(Off)
    /\ strip' = Fill(Off)
    /\ pc' = "calc_threshold"
    /\ UNCHANGED <<cfgVars, hsvVars, slept, calVars, sosVars, console, loopVars>>

ThresholdCode(g) == Ceil(g * 128, 4 * GUnit)
\* Mutant of TimeLimitCode: the quotient truncated (int() without ceil).
TimeLimitCodeTruncated(t) == int(t * 50, SUnit)

TimeLimitCode(t) == Ceil(t * 50, SUnit)

\* Mutants of CodeTooHigh: the limit of an 8-bit register; a limit one too
\* high.
CodeTooHigh8Bit(code) == code > 255
CodeTooHighOffByOne(code) == code > 128

\* The register limit tested by both checks.
CodeTooHigh(code) == code > 127

\* tap_threshold = int(math.ceil(TAP_THRESHOLD_G/(4.0/128.0))) and its check.
CalcThreshold ==
    /\ pc = "calc_threshold"
    /\ tap_threshold' = ThresholdCode(TAP_THRESHOLD_G)
    /\ IF CodeTooHigh(tap_threshold')
       THEN /\ pc' = "sos_print"
            /\ message' = ThresholdMessage
            /\ UNCHANGED console
       ELSE /\ pc' = "calc_time_limit"
            /\ console' = [text |-> "Using tap threshold value: ", arg |-> tap_threshold']
            /\ UNCHANGED message
    /\ UNCHANGED <<cfgVars, hsvVars, slept, pixels, strip, time_limit, click, sos_i, loopVars>>

\* time_limit = int(math.ceil(TAP_TIME_LIMIT_S/(1.0/50.0))) and its check.
CalcTimeLimit ==
    /\ pc = "calc_time_limit"
    /\ time_limit' = TimeLimitCode(TAP_TIME_LIMIT_S)
    /\ IF CodeTooHigh(time_limit')
       THEN /\ pc' = "sos_print"
            /\ message' = TimeLimitMessage
            /\ UNCHANGED console
       ELSE /\ pc' = "set_click"
            /\ console' = [text |-> "Using time limit value: ", arg |-> time_limit']
            /\ UNCHANGED message
    /\ UNCHANGED <<cfgVars, hsvVars, slept, pixels, strip, tap_threshold, click, sos_i, loopVars>>

\* lis3dh.set_click(1, tap_threshold, time_limit=time_limit), then
\* last = time.monotonic(); pixels_animate = 0
SetClick ==
    /\ pc = "set_click"
    /\ click' = <<1, tap_threshold, time_limit>>
    /\ \E t \in 0..MaxStart : last' = t
    /\ pixels_animate' = 0
    /\ pc' = "read_clock"
    /\ UNCHANGED <<cfgVars, hsvVars, slept, pixels, strip, tap_threshold, time_limit, sosVars,
                   console, current, delta, remaining, single, hsv_calls, since_poll, t0>>

\* ---------------------------------------------------------------- main loop
\* current = time.monotonic(); delta = current - last; last = current
\* The clock is monotonic: a reading is never below the one before.
ReadClock ==
    /\ pc = "read_clock"
    /\ \E t \in last..(last + MaxDelta) :
          /\ t <= MaxTime
          /\ current' = t
          /\ delta' = t - last
          /\ last' = t
    /\ pc' = "decay"
    /\ UNCHANGED <<cfgVars, hsvVars, slept, pixels, strip, calVars, sosVars, console,
                   pixels_animate, remaining, single, hsv_calls, since_poll, t0>>

\* Mutants of Decayed: the floor at 0 left out; a fixed nominal tick
\* subtracted in place of the elapsed time.
DecayedNoFloor(pa, d) == pa - d
DecayedNominalTick(pa, d) == Max(0, pa - 1)

\* max(0, pixels_animate - delta)
Decayed(pa, d) == Max(0, pa - d)

\* pixels_animate = max(0, pixels_animate - delta)
Decay ==
    /\ pc = "decay"
    /\ pixels_animate' = Decayed(pixels_animate, delta)
    /\ pc' = "render"
    /\ UNCHANGED <<cfgVars, hsvVars, slept, pixels, strip, calVars, sosVars, console,
                   last, current, delta, remaining, single, hsv_calls, since_poll, t0>>

\* Mutant of StillAnimating: a non-strict comparison.
StillAnimatingNonStrict(pa) == pa >= 0

\* Mutant of StillAnimating: the last tick of the flash taken for idle.
StillAnimatingOffByOne(pa) == pa > 1

\* HSV_to_RGB raised IndexError in one of its three lookups.
Raises(color) == \E c \in 1..3 : color[c] = -1

\* The buffer after the for loop of animate_rainbow: pixel i gets frame[i],
\* up to and including the first pixel whose HSV_to_RGB raises (it keeps the
\* marker); the pixels after it keep what they held.
Assigned(old, frame) ==
    [i \in Pixels |->
        IF \A j \in 0..(i - 1) : ~Raises(frame[j]) THEN frame[i] ELSE old[i]]

\* The test of the if at line 226.
StillAnimating(pa) == pa > 0

\* if pixels_animate > 0: remaining = ...; animate_rainbow(...)
\* else: pixels.fill((0,0,0))
\* An uncaught IndexError (a GAMMA8 index outside -256..255) ends the script
\* with a traceback: the pixels before the failing one are already assigned.
Render ==
    /\ pc = "render"
    /\ IF StillAnimating(pixels_animate)
       THEN /\ remaining' = <<pixels_animate, STEP_FLASH_S>>
            /\ hsv_calls' = RainbowCalls(current, <<pixels_animate, STEP_FLASH_S>>)
            /\ pixels' = Assigned(pixels,
                                  animate_rainbow(current, <<pixels_animate, STEP_FLASH_S>>))
            /\ pc' = IF \E i \in Pixels : Raises(pixels'[i])
                     THEN "traceback" ELSE "write"
       ELSE /\ pixels' = Fill(Off)
            /\ hsv_calls' = <<>>
            /\ pc' = "write"
            /\ UNCHANGED remaining
    /\ since_poll' = Append(since_poll, "render")
    /\ UNCHANGED <<cfgVars, hsvVars, slept, strip, calVars, sosVars, console,
                   last, current, delta, pixels_animate, single, t0>>

\* Mutant of Write: the flush left out.
WriteLeftOut ==
    /\ pc = "write"
    /\ pc' = "read_click"
    /\ UNCHANGED <<cfgVars, hsvVars, slept, pixels, strip, calVars, sosVars, console, loopVars>>

\* pixels.write()
Write ==
    /\ pc = "write"
    /\ strip' = pixels
    /\ since_poll' = Append(since_poll, "write")
    /\ pc' = "read_click"
    /\ UNCHANGED <<cfgVars, hsvVars, slept, pixels, calVars, sosVars, console,
                   last, current, delta, pixels_animate, remaining, single, hsv_calls, t0>>

\* Mutant of Triggered: the flash time added to what is left.
TriggeredAdditive(pa) == pa + STEP_FLASH_S

\* The value a single tap gives pixels_animate.
Triggered(pa) == STEP_FLASH_S

\* single, double = lis3dh.read_click(); if single: pixels_animate = STEP_FLASH_S
ReadClick ==
    /\ pc = "read_click"
    /\ \E s \in BOOLEAN :
          /\ single' = s
          /\ pixels_animate' = IF s THEN Triggered(pixels_animate) ELSE pixels_animate
          /\ t0' = IF s THEN last ELSE t0
    /\ since_poll' = <<>>
    /\ pc' = "sleep"
    /\ UNCHANGED <<cfgVars, hsvVars, slept, pixels, strip, calVars, sosVars, console,
                   last, current, delta, remaining, hsv_calls>>

\* 0.01 s, in 1/SUnit s.
LoopSleep == 10

\* time.sleep(0.01)
Sleep ==
    /\ pc = "sleep"
    /\ slept' = LoopSleep
    /\ pc' = "read_clock"
    /\ UNCHANGED <<cfgVars, hsvVars, pixels, strip, calVars, sosVars, console, loopVars>>

\* ---------------------------------------------------------------- error_sos
\* print(message), at the top of every pass of the while True.
SosPrint ==
    /\ pc = "sos_print"
    /\ console' = [text |-> message, arg |-> 0]
    /\ sos_i' = 0
    /\ pc' = "sos_fill_on"
    /\ UNCHANGED <<cfgVars, hsvVars, slept, pixels, strip, calVars, message, loopVars>>

\* pixels.fill((255,0,0)) / pixels.fill((0,0,0))
SosFill ==
    /\ pc \in {"sos_fill_on", "sos_fill_off"}
    /\ pixels' = IF pc = "sos_fill_on" THEN Fill(Red) ELSE Fill(Off)
    /\ pc' = IF pc = "sos_fill_on" THEN "sos_write_on" ELSE "sos_write_off"
    /\ UNCHANGED <<cfgVars, hsvVars, slept, strip, calVars, sosVars, console, loopVars>>

\* pixels.write()
SosWrite ==
    /\ pc \in {"sos_write_on", "sos_write_off"}
    /\ strip' = pixels
    /\ pc' = IF pc = "sos_write_on" THEN "sos_sleep_on" ELSE "sos_sleep_off"
    /\ UNCHANGED <<cfgVars, hsvVars, slept, pixels, calVars, sosVars, console, loopVars>>

\* Pauses of error_sos, in 1/SUnit s: 0.25 s and 0.50 s.
ShortBlink == 250
LongBlink == 500

\* Mutant of BlinkSleep: the long blinks as short as the short ones.
BlinkSleepAllShort(i) == ShortBlink

\* The pause of blink i of a cycle, after its on half and after its off
\* half: the first for loop (i 0..2) sleeps 0.25 s, the second (3..5) 0.50 s.
BlinkSleep(i) == IF i < 3 THEN ShortBlink ELSE LongBlink

\* Mutant of SosSleep: no enclosing while True, error_sos returns to its
\* caller after the last long blink.
SosSleepReturns ==
    /\ pc \in {"sos_sleep_on", "sos_sleep_off"}
    /\ IF pc = "sos_sleep_on"
       THEN /\ pc' = "sos_fill_off"
            /\ UNCHANGED sos_i
       ELSE /\ sos_i' = sos_i + 1
            /\ pc' = IF sos_i' = 6
                     THEN (IF message = ThresholdMessage
                           THEN "calc_time_limit" ELSE "set_click")
                     ELSE "sos_fill_on"
    /\ slept' = BlinkSleep(sos_i)
    /\ UNCHANGED <<cfgVars, hsvVars, pixels, strip, calVars, message, console, loopVars>>

\* time.sleep(...); the sleep after the off half ends one pass of a for loop.
\* sos_i counts the blinks of one cycle: 0..2 short, 3..5 long.
SosSleep ==
    /\ pc \in {"sos_sleep_on", "sos_sleep_off"}
    /\ IF pc = "sos_sleep_on"
       THEN /\ pc' = "sos_fill_off"
            /\ UNCHANGED sos_i
       ELSE /\ sos_i' = sos_i + 1
            /\ pc' = IF sos_i' = 6 THEN "sos_print" ELSE "sos_fill_on"
    /\ slept' = BlinkSleep(sos_i)
    /\ UNCHANGED <<cfgVars, hsvVars, pixels, strip, calVars, message, console, loopVars>>

Next ==
    \/ ClearPixels
    \/ CalcThreshold
    \/ CalcTimeLimit
    \/ SetClick
    \/ ReadClock
    \/ Decay
    \/ Render
    \/ Write
    \/ ReadClick
    \/ Sleep
    \/ SosPrint
    \/ SosFill
    \/ SosWrite
    \/ SosSleep

Spec == Init /\ [][Next]_vars

\* ---------------------------------------------------------------- HSV_to_RGB alone
\* Grids of arguments for a direct call of HSV_to_RGB: hues 0..360 degrees
\* in HueSteps steps together with the six sector boundaries, saturations
\* k/SatSteps and values k/ValueSteps.
HueSteps == 24
SatSteps == 2
ValueSteps == 20
HueChoices ==
    {(k * 360 * FixedScale) \div HueSteps : k \in 0..HueSteps}
       \cup {k * 60 * FixedScale : k \in 0..5}
SatChoices == {<<k, SatSteps>> : k \in 0..SatSteps}
ValueChoices == {<<k, ValueSteps>> : k \in 0..ValueSteps}

InitHSV ==
    /\ TAP_THRESHOLD_G = ShippedThreshold
    /\ TAP_TIME_LIMIT_S = ShippedTimeLimit
    /\ GAMMA8 = GammaLiteral
    /\ pc = "hsv_call"
    /\ pixels = Fill(Off)
    /\ strip = Fill(Off)
    /\ tap_threshold = -1
    /\ time_limit = -1
    /\ click = <<>>
    /\ message = ""
    /\ sos_i = 0
    /\ console = [text |-> "", arg |-> 0]
    /\ last = 0
    /\ current = 0
    /\ delta = 0
    /\ pixels_animate = 0
    /\ remaining = <<0, 1>>
    /\ single = FALSE
    /\ hsv_calls = <<>>
    /\ since_poll = <<>>
    /\ t0 = -1
    /\ slept = 0
    /\ \E h \in HueChoices, s \in SatChoices, v \in ValueChoices :
          arg = [h |-> h, s |-> s, v |-> v]
    /\ rgb = <<0, 0, 0>>

\* rgb = HSV_to_RGB(h, s, v)
HsvCall ==
    /\ pc = "hsv_call"
    /\ rgb' = HSV_to_RGB(arg.h, arg.s, arg.v)
    /\ pc' = "hsv_done"
    /\ UNCHANGED <<cfgVars, arg, slept, pixels, strip, calVars, sosVars, console, loopVars>>

NextHSV == HsvCall

SpecHSV == InitHSV /\ [][NextHSV]_vars

\* ================================================================ claims
\* The frame the renderer produces for a remaining time pa at clock reading c.
FrameFor(pa, c) ==
    IF pa > 0 THEN animate_rainbow(c, <<pa, STEP_FLASH_S>>) ELSE Fill(Off)

\* Positions of an iteration after the decay and before the poll has acted.
AfterDecay == {"render", "write", "read_click"}

\* C1: in every reachable state the remaining animation time lies in
\* 0..STEP_FLASH_S, the remaining fraction lies in [0,1], and so does the
\* value of every HSV_to_RGB call of the renderer.
C1_RemainingInRange ==
    /\ 0 <= pixels_animate
    /\ pixels_animate <= STEP_FLASH_S
    /\ remaining[2] > 0
    /\ 0 <= remaining[1]
    /\ remaining[1] <= remaining[2]
    /\ \A i \in DOMAIN hsv_calls :
          /\ hsv_calls[i].v[2] > 0
          /\ 0 <= hsv_calls[i].v[1]
          /\ hsv_calls[i].v[1] <= hsv_calls[i].v[2]

\* C1 witness: a tap was polled, the next clock reading came more than
\* STEP_FLASH_S later, and the decay stopped at 0.
C1_Witness ==
    /\ pc = "render"
    /\ single
    /\ delta > STEP_FLASH_S
    /\ pixels_animate = 0

\* C2: right after a poll that reported a single tap the remaining time is
\* exactly STEP_FLASH_S, whatever it was before the poll.
C2_TriggerRestarts ==
    (pc = "sleep" /\ single) => pixels_animate = STEP_FLASH_S

\* C2 witness: a tap polled in an iteration whose frame was drawn with a
\* partly decayed remaining time (so an earlier tap was still animating).
C2_Witness ==
    /\ pc = "sleep"
    /\ single
    /\ hsv_calls /= <<>>
    /\ remaining[1] \in 1..(STEP_FLASH_S - 1)
    /\ pixels_animate = STEP_FLASH_S

\* 0.1 s in ticks.
Tenth == TicksPerSecond \div 10

\* C3: without a tap the remaining time never grows from one step to the
\* next; and in an iteration whose clock reading is STEP_FLASH_S or more after
\* that of the last tap's iteration, the remaining time is 0 after the decay
\* and the flushed frame is all off.  With a flash time of 0.5 s, k ticks of
\* 0.1 s after the tap's iteration the remaining fraction is 1 - k/5.
C3_DecayToOff ==
    /\ [][~(pc = "read_click" /\ single') => pixels_animate' <= pixels_animate]_vars
    /\ [](  (t0 >= 0 /\ pc \in AfterDecay /\ current - t0 >= STEP_FLASH_S)
            => /\ pixels_animate = 0
               /\ pc = "read_click" => strip = Fill(Off))
    /\ [](\A k \in 0..5 :
            (t0 >= 0 /\ pc \in AfterDecay /\ current - t0 = k * Tenth)
            => pixels_animate * 5 = (5 - k) * STEP_FLASH_S)

\* C3 witness: the last of ticks of 0.1 s that add up to the flash time: the
\* frame before was still lit, this one is flushed all off.
C3_Witness ==
    /\ pc = "read_click"
    /\ t0 >= 0
    /\ current - t0 = STEP_FLASH_S
    /\ delta = 2
    /\ remaining = <<2, STEP_FLASH_S>>
    /\ pixels_animate = 0
    /\ strip = Fill(Off)

\* C4: an iteration runs clock, decay, render, flush, poll, sleep in this
\* order; at every poll exactly one render and then one flush have happened
\* since the poll before, the LEDs show the frame of the current remaining
\* time, and the poll changes neither the buffer nor the LEDs.
C4_IterationOrder ==
    /\ [][ /\ pc = "read_clock" => pc' = "decay"
           /\ pc = "decay" => pc' = "render"
           /\ pc = "render" => pc' = "write"
           /\ pc = "write" => pc' = "read_click"
           /\ pc = "read_click" => pc' = "sleep"
           /\ pc = "sleep" => pc' = "read_clock"
           /\ pc = "read_click" => (pixels' = pixels /\ strip' = strip) ]_vars
    /\ [](pc = "read_click" =>
            /\ since_poll = <<"render", "write">>
            /\ strip = pixels
            /\ strip = FrameFor(pixels_animate, current))

\* C4 witness: a tap polled while the strip is off: the iteration's frame
\* stays off although the remaining time is now STEP_FLASH_S.
C4_Witness ==
    /\ pc = "sleep"
    /\ single
    /\ pixels_animate = STEP_FLASH_S
    /\ strip = Fill(Off)
    /\ pixels = Fill(Off)
    /\ hsv_calls = <<>>

\* Calibration is over: the script is in error_sos or past both checks.
CalibrationEnded == pc \in SosPcs \cup {"set_click"} \cup LoopPcs

\* The codes the configuration asks for: the least integer code whose
\* represented value (code * 4/128 g, code * 1/50 s) is at least the
\* configured value.
IsLeastCode(code, value, num, den) ==
    /\ code * den >= value * num
    /\ (code - 1) * den < value * num
WantedThreshold == CHOOSE c \in 0..200 : IsLeastCode(c, TAP_THRESHOLD_G, 128, 4 * GUnit)
WantedTimeLimit == CHOOSE c \in 0..200 : IsLeastCode(c, TAP_TIME_LIMIT_S, 50, SUnit)

\* C5: calibration ends in the threshold fault exactly when the threshold
\* code is above 127 (5.0 g gives 160), in the time-limit fault exactly when
\* the threshold code is at most 127 and the time-limit code is above 127, and
\* succeeds exactly when both are at most 127; error_sos prints the message
\* of the fault it was entered with.
C5_CalibrationOutcome ==
    /\ CalibrationEnded =>
          /\ (pc \in SosPcs /\ message = ThresholdMessage) <=> WantedThreshold > 127
          /\ (pc \in SosPcs /\ message = TimeLimitMessage)
                <=> (WantedThreshold <= 127 /\ WantedTimeLimit > 127)
          /\ (pc \notin SosPcs) <=> (WantedThreshold <= 127 /\ WantedTimeLimit <= 127)
    /\ (CalibrationEnded /\ TAP_THRESHOLD_G = 5 * GUnit) =>
          (tap_threshold = 160 /\ pc \in SosPcs /\ message = ThresholdMessage)
    /\ (pc \in SosPcs /\ pc /= "sos_print") => console.text = message
    /\ ThresholdMessage /= TimeLimitMessage

\* C5 witness: 5.0 g together with a time window that is too long as well:
\* the threshold fault, with its message printed.
C5_Witness ==
    /\ pc = "sos_fill_on"
    /\ TAP_THRESHOLD_G = 5 * GUnit
    /\ WantedTimeLimit > 127
    /\ tap_threshold = 160
    /\ console.text = ThresholdMessage

\* C6: error_sos is entered only from one of the two calibration checks and
\* never left; inside it click detection is not enabled, no main-loop step
\* (clock, render, flush, poll) has run and the buffer holds only all-red or
\* all-off; once calibration has succeeded error_sos is never entered.
C6_FaultIsTerminal ==
    /\ [][(pc \in SosPcs) => (pc' \in SosPcs)]_vars
    /\ [][(pc \notin SosPcs /\ pc' \in SosPcs)
            => pc \in {"calc_threshold", "calc_time_limit"}]_vars
    /\ [][(pc \in {"set_click"} \cup LoopPcs) => (pc' \in LoopPcs)]_vars
    /\ [](pc \in SosPcs =>
            /\ click = <<>>
            /\ t0 = -1 /\ ~single
            /\ since_poll = <<>> /\ hsv_calls = <<>>
            /\ pixels \in {Fill(Red), Fill(Off)})
    /\ [](click /= <<>> => pc \in LoopPcs)

\* C6 witness: error_sos has completed a whole cycle of six blinks and is
\* back at its print.
C6_Witness ==
    /\ pc = "sos_print"
    /\ sos_i = 6
    /\ message = TimeLimitMessage
    /\ click = <<>>

C8_ClickCodesSevenBit ==
    click /= <<>> => (click[2] \in 0..127 /\ click[3] \in 0..127)

\* C8 witness: the largest representable codes are passed.
C8_Witness ==
    /\ click = <<1, 127, 127>>
    /\ TAP_THRESHOLD_G = 396
    /\ TAP_TIME_LIMIT_S = 2540

\* C9: in the frame just rendered, a remaining time of 0 means a direct fill
\* with (0,0,0) and no HSV_to_RGB call; a remaining time above 0 means one
\* HSV_to_RGB call per pixel with saturation 1 and value
\* remaining/STEP_FLASH_S, whose result is the pixel.
C9_IdleIffZero ==
    pc \in {"write", "read_click"} =>
       /\ pixels_animate = 0 => (hsv_calls = <<>> /\ pixels = Fill(Off))
       /\ pixels_animate > 0 =>
             /\ DOMAIN hsv_calls = Pixels
             /\ \A i \in Pixels :
                   /\ hsv_calls[i].v = <<pixels_animate, STEP_FLASH_S>>
                   /\ hsv_calls[i].s = <<1, 1>>
                   /\ pixels[i] = HSV_to_RGB(hsv_calls[i].h, hsv_calls[i].s, hsv_calls[i].v)

\* C9 witness: the smallest remaining time above 0: the frame goes through
\* the renderer (and is dark all the same, GAMMA8[25] being 0).
C9_Witness ==
    /\ pc = "write"
    /\ pixels_animate = 1
    /\ DOMAIN hsv_calls = Pixels
    /\ pixels = Fill(Off)

\* C10: every hue passed to HSV_to_RGB lies in [0,360), and the saturation
\* and value passed lie in [0,1].
C10_HueInContract ==
    \A i \in DOMAIN hsv_calls :
       /\ 0 <= hsv_calls[i].h
       /\ hsv_calls[i].h < 360 * FixedScale
       /\ 0 <= hsv_calls[i].s[1] /\ hsv_calls[i].s[1] <= hsv_calls[i].s[2]
       /\ 0 <= hsv_calls[i].v[1] /\ hsv_calls[i].v[1] <= hsv_calls[i].v[2]

\* The gamma-table entry for the rational c = <<num, den>> in [0,1] scaled
\* to 0..255 and truncated, and the one for it rounded to the nearest index.
GammaTruncated(c) == GAMMA8[((255 * c[1]) \div c[2]) + 1]
GammaRounded(c) == GAMMA8[((2 * 255 * c[1] + c[2]) \div (2 * c[2])) + 1]

\* C11 as stated: with saturation 0, HSV_to_RGB returns (g,g,g) with
\* g = GAMMA8[round(255*v)], for every hue and every value in [0,1].
C11_GreyRounded ==
    (pc = "hsv_done" /\ arg.s[1] = 0) =>
       rgb = <<GammaRounded(arg.v), GammaRounded(arg.v), GammaRounded(arg.v)>>

\* C11 amended: with saturation 0, HSV_to_RGB returns (g,g,g) with
\* g = GAMMA8[floor(255*v)], for every hue and every value in [0,1]: the
\* scaled channel is truncated, not rounded, before the gamma lookup.
C11_GreyTruncated ==
    (pc = "hsv_done" /\ arg.s[1] = 0) =>
       rgb = <<GammaTruncated(arg.v), GammaTruncated(arg.v), GammaTruncated(arg.v)>>

\* C11 witness: a grey call at a hue other than 0 whose truncated and
\* rounded lookups differ.
C11_Witness ==
    /\ pc = "hsv_done"
    /\ arg.s[1] = 0
    /\ arg.h > 0
    /\ rgb[1] = GammaTruncated(arg.v)
    /\ rgb[1] /= GammaRounded(arg.v)

\* The 6-case table: which of v, t, p, q each of r, g, b takes in a sector.
SectorTable == << <<"v", "t", "p">>, <<"q", "v", "p">>, <<"p", "v", "t">>,
                  <<"p", "q", "v">>, <<"t", "p", "v">>, <<"v", "p", "q">> >>

\* v, p = v(1-s), q = v(1-sf), t = v(1-s(1-f)) for a call, f being the
\* fraction of the hue within its 60-degree sector.
Linear(a, name) ==
    LET fD == 60 * FixedScale
        fN == a.h % fD
    IN CASE name = "v" -> a.v
         [] name = "p" -> <<a.v[1] * (a.s[2] - a.s[1]), a.v[2] * a.s[2]>>
         [] name = "q" -> <<a.v[1] * (a.s[2] * fD - a.s[1] * fN), a.v[2] * a.s[2] * fD>>
         [] name = "t" -> <<a.v[1] * (a.s[2] * fD - a.s[1] * (fD - fN)), a.v[2] * a.s[2] * fD>>

\* The colours of the six sector boundaries at saturation = value = 1.
Primaries == << <<255, 0, 0>>, <<255, 255, 0>>, <<0, 255, 0>>,
                <<0, 255, 255>>, <<0, 0, 255>>, <<255, 0, 255>> >>

\* C12: for a hue in [0,360) and a saturation above 0, the channels are
\* those the 6-case table names for the sector floor(hue/60) mod 6 (each
\* passed through the gamma lookup); at hue 0, 60, .., 300 with saturation
\* and value 1 the result is red, yellow, green, cyan, blue, magenta.
C12_SectorTable ==
    (pc = "hsv_done" /\ arg.s[1] > 0 /\ arg.h >= 0 /\ arg.h < 360 * FixedScale) =>
       LET row == SectorTable[((arg.h \div (60 * FixedScale)) % 6) + 1]
       IN /\ \A c \in 1..3 : rgb[c] = GammaTruncated(Linear(arg, row[c]))
          /\ \A k \in 0..5 :
                (arg.h = k * 60 * FixedScale /\ arg.s[1] = arg.s[2] /\ arg.v[1] = arg.v[2])
                   => rgb = Primaries[k + 1]

\* C12 witness: hue 240 at saturation and value 1 has returned blue.
C12_Witness ==
    /\ pc = "hsv_done"
    /\ arg.h = 240 * FixedScale
    /\ arg.s[1] = arg.s[2]
    /\ arg.v[1] = arg.v[2]
    /\ rgb = <<0, 0, 255>>

\* C13: when the last single tap was polled in an iteration whose clock
\* reading was t0, the remaining time after the decay of every later
\* iteration with clock reading t is max(0, STEP_FLASH_S - (t - t0)), however
\* many iterations lie in between and however long each was.
C13_DecayFollowsClock ==
    (t0 >= 0 /\ pc \in AfterDecay) =>
       pixels_animate = (IF STEP_FLASH_S - (current - t0) > 0
                         THEN STEP_FLASH_S - (current - t0) ELSE 0)

\* C13 witness: at least two iterations since the tap (the last one shorter
\* than the whole time since the tap, and not half of it), still animating.
C13_Witness ==
    /\ pc = "render"
    /\ t0 >= 0
    /\ delta > 0
    /\ current - t0 > delta
    /\ current - t0 /= 2 * delta
    /\ pixels_animate > 0
    /\ pixels_animate = STEP_FLASH_S - (current - t0)

\* C14: error_sos repeats print, three short blinks, three long blinks. A
\* blink is: fill red, flush, pause, fill off, flush, the same pause (0.25 s
\* for blinks 0..2, 0.5 s for blinks 3..5 of a cycle). The message is printed
\* once per cycle, every fill is flushed before the next fill, and the strip
\* is off when a cycle ends.
C14_SosCycle ==
    /\ [][ /\ pc = "sos_print" =>
                (pc' = "sos_fill_on" /\ console'.text = message /\ sos_i' = 0)
           /\ pc = "sos_fill_on" => (pc' = "sos_write_on" /\ pixels' = Fill(Red))
           /\ pc = "sos_write_on" => (pc' = "sos_sleep_on" /\ strip' = Fill(Red))
           /\ pc = "sos_sleep_on" =>
                (pc' = "sos_fill_off" /\ slept' = (IF sos_i < 3 THEN ShortBlink ELSE LongBlink))
           /\ pc = "sos_fill_off" => (pc' = "sos_write_off" /\ pixels' = Fill(Off))
           /\ pc = "sos_write_off" => (pc' = "sos_sleep_off" /\ strip' = Fill(Off))
           /\ pc = "sos_sleep_off" =>
                /\ slept' = (IF sos_i < 3 THEN ShortBlink ELSE LongBlink)
                /\ sos_i' = sos_i + 1
                /\ pc' = (IF sos_i = 5 THEN "sos_print" ELSE "sos_fill_on")
           /\ (pc \in SosPcs /\ pc /= "sos_print") => console' = console
           /\ (pc \in SosPcs) => message' = message ]_vars
    /\ [](pc \in SosPcs => sos_i \in 0..6)
    /\ [](pc \in SosPcs \ {"sos_print"} => sos_i \in 0..5)
    /\ []((pc = "sos_print" /\ sos_i = 6) => (strip = Fill(Off) /\ pixels = Fill(Off)))
    /\ [](pc \in {"sos_fill_on", "sos_fill_off"} => strip = pixels)

\* C14 witness: the three short blinks done, in the on-pause of the first
\* long blink, the strip red.
C14_Witness ==
    /\ pc = "sos_sleep_on"
    /\ sos_i = 3
    /\ slept = ShortBlink
    /\ strip = Fill(Red)
    /\ console.text = TimeLimitMessage

\* The names of the linear channels HSV_to_RGB computes.
LinearNames == {"v", "p", "q", "t"}

\* C15: in the main loop every linear channel v, p, q, t of every
\* HSV_to_RGB call lies in [0,1], so every GAMMA8 index is in 0..255; every
\* pixel written has an index in 0..N-1; no exception ends the loop, the loop
\* is never left, every render ends at the flush, and at every other
\* position of an iteration the next step can be taken (with the fixed order
\* of the steps: the next iteration follows).
C15_LoopNeverFails ==
    /\ [](\A i \in DOMAIN hsv_calls : \A n \in LinearNames :
            LET x == Linear(hsv_calls[i], n)
            IN /\ x[2] > 0
               /\ 0 <= x[1] /\ x[1] <= x[2]
               /\ (255 * x[1]) \div x[2] \in 0..255)
    /\ [](DOMAIN hsv_calls \subseteq Pixels /\ DOMAIN pixels = Pixels)
    /\ [](pc /= "traceback")
    /\ [][(pc \in {"set_click"} \cup LoopPcs) => (pc' \in LoopPcs)]_vars
    /\ [][pc = "render" => pc' = "write"]_vars
    /\ [](/\ pc = "read_clock" => ENABLED ReadClock
          /\ pc = "decay" => ENABLED Decay
          /\ pc = "write" => ENABLED Write
          /\ pc = "read_click" => ENABLED ReadClick
          /\ pc = "sleep" => ENABLED Sleep)

\* C15 witness: a frame drawn at full value whose calls include the hue
\* 360 (sector index 6), flushed, and the loop at its sleep.
C15_Witness ==
    /\ pc = "sleep"
    /\ DOMAIN hsv_calls = Pixels
    /\ \E i \in Pixels : hsv_calls[i].h = 360 * FixedScale
                         /\ hsv_calls[i].v = <<STEP_FLASH_S, STEP_FLASH_S>>
    /\ strip = pixels

\* C16: in every state the gamma table is the one bound at start-up (no
\* statement writes it); it has 256 entries, each a byte; it does not
\* decrease along its index; index 0 reads 0 and index 255 reads 255.
C16_GammaTable ==
    /\ GAMMA8 = GammaLiteral
    /\ Len(GAMMA8) = 256
    /\ \A k \in 0..255 : GammaAt(k) \in 0..255
    /\ \A k \in 0..254 : GammaAt(k) <= GammaAt(k + 1)
    /\ GammaAt(0) = 0
    /\ GammaAt(255) = 255

\* C16 witness: a full-value frame is flushed, so both ends of the table
\* have been read: some pixel shows a channel 255 next to a channel 0.
C16_Witness ==
    /\ pc = "read_click"
    /\ pixels_animate = STEP_FLASH_S
    /\ strip = pixels
    /\ \E i \in Pixels : \E c, d \in 1..3 : strip[i][c] = 255 /\ strip[i][d] = 0

\* The brightness of a pixel: its largest channel.
MaxCh(color) == Max(color[1], Max(color[2], color[3]))

\* C17: in a rainbow frame the largest channel of every pixel is the gamma
\* entry of the scaled remaining fraction, the same for all pixels whatever
\* their hue, and the frame is what the flush shows; from one flush to the
\* next, when the poll between them reported no tap, no pixel's largest
\* channel grows.
C17_BrightnessFades ==
    /\ []((pc \in {"write", "read_click"} /\ pixels_animate > 0) =>
            \A i \in Pixels :
               MaxCh(pixels[i]) = GAMMA8[((255 * pixels_animate) \div STEP_FLASH_S) + 1])
    /\ [](pc = "read_click" => strip = pixels)
    /\ [][(pc = "write" /\ ~single) =>
             \A i \in Pixels : MaxCh(strip'[i]) <= MaxCh(strip[i])]_vars

\* C17 witness: a dimmed rainbow frame after a poll without a tap is
\* flushed: two pixels of different colour, the same largest channel,
\* strictly between off and full.
C17_Witness ==
    /\ pc = "read_click"
    /\ ~single
    /\ pixels_animate > 0
    /\ pixels_animate < STEP_FLASH_S
    /\ strip = pixels
    /\ strip[0] /= strip[1]
    /\ MaxCh(strip[0]) = MaxCh(strip[1])
    /\ MaxCh(strip[0]) \in 1..254

\* C18: when the previous iteration's poll reported a single tap and this
\* iteration's clock reading is less than STEP_FLASH_S after the previous
\* one, this iteration draws all pixels through animate_rainbow with the
\* remaining fraction 1 - delta/STEP_FLASH_S (above 0), and flushes that
\* frame.
C18_TapShowsNextIteration ==
    (pc \in {"write", "read_click"} /\ single /\ delta < STEP_FLASH_S) =>
       /\ pixels_animate = STEP_FLASH_S - delta
       /\ pixels_animate > 0
       /\ remaining[1] * STEP_FLASH_S = (STEP_FLASH_S - delta) * remaining[2]
       /\ DOMAIN hsv_calls = Pixels
       /\ \A i \in Pixels : /\ hsv_calls[i].v = remaining
                              /\ hsv_calls[i].h = PixelHue(i, current)
                              /\ pixels[i] = HSV_to_RGB(hsv_calls[i].h, hsv_calls[i].s,
                                                        hsv_calls[i].v)
       /\ pc = "read_click" => strip = pixels

\* C18 witness: a tap was polled, the next clock reading came a positive
\* time below STEP_FLASH_S later, and the lit frame is flushed.
C18_Witness ==
    /\ pc = "read_click"
    /\ single
    /\ delta > 0
    /\ delta < STEP_FLASH_S
    /\ remaining = <<STEP_FLASH_S - delta, STEP_FLASH_S>>
    /\ strip = pixels
    /\ \E i \in Pixels : strip[i] /= Off

\* Positions from the end of the start-up clear to the main loop.
AfterClear == {"calc_threshold", "calc_time_limit", "set_click"} \cup LoopPcs

\* C19: after the start-up clear and as long as no poll has reported a
\* single tap, the remaining time is 0, no HSV_to_RGB call has been made,
\* and the buffer and the strip are all off, whatever the clock read.
C19_StartsOnlyFromStep ==
    (pc \in AfterClear /\ t0 = -1) =>
       /\ pixels_animate = 0
       /\ hsv_calls = <<>>
       /\ pixels = Fill(Off)
       /\ strip = Fill(Off)

\* C19 witness: several iterations in, more than the flash time after the
\* start, no tap polled yet, an off frame about to be flushed.
C19_Witness ==
    /\ pc = "write"
    /\ t0 = -1
    /\ slept = LoopSleep
    /\ delta > 0
    /\ current > STEP_FLASH_S
    /\ strip = Fill(Off)
    /\ pixels = Fill(Off)

====
